---- MODULE Spec2Model ----
(***************************************************************************)
(* deebee: a key-value store kept in a text log (src/src/main.rs).         *)
(*                                                                         *)
(* One run of the program (main) opens the database with Database::new and *)
(* executes one command.  The model keeps the file system the runs share,  *)
(* and for every run its position in main, its arguments, the Database it  *)
(* built and the value its command returned.  Strings are sequences of     *)
(* one-character strings, so that formatting, lines(), trim(),             *)
(* split_once(',') and read_line are computed as the code computes them.   *)
(***************************************************************************)
EXTENDS Integers, Sequences, FiniteSets, TLC

VARIABLES
    fs,       \* path -> NoFile, or File(bytes)
    pc,       \* run -> its position in main
    args,     \* run -> [db_name, cmd, key, value] (struct Args)
    db,       \* run -> the Database built by Database::new
    content,  \* run -> `content` of set_by_key (the file as it was read)
    result,   \* run -> [ret, val, abort]: what the command returned, where it aborted
    snap,     \* run -> what its database was when the run started (history)
    hist,     \* db_name -> the sets that returned Ok and the deletes asked, in order (history)
    made,     \* the paths whose file a run of the program created (history)
    runs,     \* number of runs started so far
    envs,     \* number of steps of the environment so far
    codec     \* the record of the codec round trip (CodecSpec)

vars == <<fs, pc, args, db, content, result, snap, hist, made, runs, envs, codec>>

----------------------------------------------------------------------------
(* Bounds and inputs *)

MaxRuns == 2      \* runs of the program in Spec
MaxEnv == 2       \* steps of the environment in Spec
LongRuns == 3     \* runs of the program in LongSpec
LongEnv == 3      \* steps of the environment in LongSpec
MaxStrLen == 2
MaxContentLen == 4
MaxRecords == 2    \* length of the keys and values of CodecSpec

Procs == {"p1", "p2"}

\* const SEGMENT_SIZE: usize = 10
SEGMENT_SIZE == 10

DbNames == {"db", "db1.log"}

Keys == {<<"a">>, <<"b">>}
Values == {<<"1">>, <<"2">>}

EmptyStr == << >>

\* A path of the file system: no file, or a file with its bytes
NoFile == [exists |-> FALSE, bytes |-> EmptyStr]
File(bytes) == [exists |-> TRUE, bytes |-> bytes]

\* "{db_name}{seg_idx}.log"
SegPath(db_name, seg_idx) == db_name \o ToString(seg_idx) \o ".log"

Paths == DbNames \cup {SegPath(d, i) : d \in DbNames, i \in 1..2}

----------------------------------------------------------------------------
(* Strings *)

Whitespace == {" ", "\n", "\r", "\t"}

\* The least index of s from `from` on whose character satisfies the test, or 0.
RECURSIVE FindFrom(_, _, _)
FindFrom(s, from, chars) ==
    IF from > Len(s) THEN 0
    ELSE IF s[from] \in chars THEN from
    ELSE FindFrom(s, from + 1, chars)

\* str::trim_start, str::trim_end, str::trim
RECURSIVE TrimStart(_)
TrimStart(s) ==
    IF Len(s) > 0 /\ s[1] \in Whitespace THEN TrimStart(Tail(s)) ELSE s

RECURSIVE TrimEnd(_)
TrimEnd(s) ==
    IF Len(s) > 0 /\ s[Len(s)] \in Whitespace
    THEN TrimEnd(SubSeq(s, 1, Len(s) - 1))
    ELSE s

Trim(s) == TrimEnd(TrimStart(s))

\* str::lines: split after every "\n"; the "\n" and a "\r" before it are dropped;
\* a last line without "\n" is a line, an empty rest is not.
RECURSIVE LinesFrom(_, _)
LinesFrom(s, from) ==
    IF from > Len(s) THEN << >>
    ELSE LET nl == FindFrom(s, from, {"\n"})
         IN  IF nl = 0 THEN <<SubSeq(s, from, Len(s))>>
             ELSE LET raw == SubSeq(s, from, nl - 1)
                      line == IF Len(raw) > 0 /\ raw[Len(raw)] = "\r"
                              THEN SubSeq(raw, 1, Len(raw) - 1)
                              ELSE raw
                  IN  <<line>> \o LinesFrom(s, nl + 1)

Lines(s) == LinesFrom(s, 1)

\* str::split_once(','): <<before, after>> of the first comma, or << >> for None
SplitOnce(s) ==
    LET c == FindFrom(s, 1, {","})
    IN  IF c = 0 THEN << >>
        ELSE <<SubSeq(s, 1, c - 1), SubSeq(s, c + 1, Len(s))>>

\* seek(SeekFrom::Start(offset)) then read_line: the bytes from offset up to and
\* with the next "\n", or up to the end of the file; nothing beyond the end.
ReadLineAt(s, offset) ==
    IF offset >= Len(s) THEN EmptyStr
    ELSE LET nl == FindFrom(s, offset + 1, {"\n"})
         IN  SubSeq(s, offset + 1, IF nl = 0 THEN Len(s) ELSE nl)

IsPrefix(s, t) == Len(s) <= Len(t) /\ SubSeq(t, 1, Len(s)) = s
----------------------------------------------------------------------------
(* Index and Map *)

\* Index::new
EmptyIndex == [k \in {} |-> 0]

\* Index::insert: HashMap::insert adds the entry or overwrites the one of k
IndexInsert(idx, k, v) ==
    [x \in (DOMAIN idx) \cup {k} |-> IF x = k THEN v ELSE idx[x]]

\* Map::new(None)
EmptyMap == << >>

\* Map::read_database, over the lines of the file: blank lines are skipped, a
\* line with a comma gives the pair of its trimmed halves, a line without a
\* comma gives nothing.
RECURSIVE read_database_lines(_)
read_database_lines(lines) ==
    IF lines = << >> THEN << >>
    ELSE LET line == Head(lines)
             rest == read_database_lines(Tail(lines))
             kv   == SplitOnce(line)
         IN  IF Trim(line) = EmptyStr THEN rest
             ELSE IF kv # << >> THEN <<(<<Trim(kv[1]), Trim(kv[2])>>)>> \o rest
             ELSE rest

read_database(file_content) == read_database_lines(Lines(file_content))

\* Map::get_key(index): the key of the pair at the 0-based index, when there is one
HasKeyAt(map, index) == index < Len(map)
get_key(map, index) == map[index + 1][1]

\* The loop of Database::new over file_content.lines(): a blank line only
\* advances the offset; any other line takes the key at line_number of the
\* map, when there is one, and records the offset of the line for it.
RECURSIVE replay_lines(_, _, _, _, _)
replay_lines(lines, map, offset, line_number, idx) ==
    IF lines = << >> THEN idx
    ELSE LET line == Head(lines)
             next == offset + Len(line) + 1
         IN  IF Trim(line) = EmptyStr
             THEN replay_lines(Tail(lines), map, next, line_number, idx)
             ELSE IF HasKeyAt(map, line_number)
             THEN replay_lines(Tail(lines), map, next, line_number + 1,
                               IndexInsert(idx, get_key(map, line_number), offset))
             ELSE replay_lines(Tail(lines), map, next, line_number, idx)

\* The index Database::new builds from the content of the segment file
build_index(file_content) ==
    IF file_content = EmptyStr THEN EmptyIndex
    ELSE replay_lines(Lines(file_content), read_database(file_content), 0, 0, EmptyIndex)

\* struct Database as Database::new returns it.  The map read from the file is
\* bound inside the `if` only: the field holds the Map::new(None) of line 75.
Database(db_name, idx) ==
    [db_name |-> db_name, map |-> EmptyMap, idx |-> idx,
     segment_files_paths |-> <<SegPath(db_name, 1)>>]

NoDatabase == [db_name |-> "", map |-> EmptyMap, idx |-> EmptyIndex,
               segment_files_paths |-> << >>]

----------------------------------------------------------------------------
(* The record format *)

\* format!("{}, {}", key, value)
new_line(key, value) == key \o <<",", " ">> \o value

\* An all_content that puts a newline after every non-empty old content
all_content_always_newline(old, key, value) ==
    IF old = EmptyStr THEN new_line(key, value)
    ELSE old \o <<"\n">> \o new_line(key, value)

\* all_content of set_by_key
all_content(old, key, value) ==
    IF old = EmptyStr THEN new_line(key, value)
    ELSE IF old[Len(old)] = "\n" THEN old \o new_line(key, value)
    ELSE old \o <<"\n">> \o new_line(key, value)

\* What get_by_key makes of the line it read: the trimmed text after the first
\* comma, or the empty string of line 176 when the line has no comma.
value_of_line(line) ==
    LET kv == SplitOnce(line)
    IN  IF kv # << >> THEN Trim(kv[2]) ELSE EmptyStr

\* write_all from position 0 of a handle on a file that holds `old`: the bytes
\* written replace the first bytes, what lies beyond them stays.
WriteAtStart(old, bytes) ==
    bytes \o SubSeq(old, Len(bytes) + 1, Len(old))

----------------------------------------------------------------------------
(* Results *)

NoResult == [ret |-> "none", val |-> EmptyStr, abort |-> ""]
Ok(v) == [ret |-> "Ok", val |-> v, abort |-> ""]
Err(site) == [ret |-> "Err", val |-> EmptyStr, abort |-> site]
Panic(site) == [ret |-> "none", val |-> EmptyStr, abort |-> site]
Usage == [ret |-> "usage", val |-> EmptyStr, abort |-> ""]

Terminal == {"done", "panicked", "exited", "crashed"}
----------------------------------------------------------------------------
(* History: what the callers asked of each database *)

SetOp(k, v) == [op |-> "set", key |-> k, value |-> v]
DeleteOp(k) == [op |-> "delete", key |-> k, value |-> EmptyStr]

\* The operations of h on key k, in order
RECURSIVE OpsOn(_, _)
OpsOn(h, k) ==
    IF h = << >> THEN << >>
    ELSE IF Head(h).key = k THEN <<Head(h)>> \o OpsOn(Tail(h), k)
    ELSE OpsOn(Tail(h), k)

LastOp(h, k) == OpsOn(h, k)[Len(OpsOn(h, k))]

\* k was set in h and neither set again nor deleted afterwards
LiveIn(h, k) == OpsOn(h, k) # << >> /\ LastOp(h, k).op = "set"

KeysSet(h) == {h[i].key : i \in {j \in 1..Len(h) : h[j].op = "set"}}

----------------------------------------------------------------------------
(* Initial state: no file, no run *)

\* hist: the history of the database; segment: its segment file is there, made
\* by an earlier run
NoSnap == [hist |-> << >>, segment |-> FALSE]

NoArgs == [db_name |-> "", cmd |-> "", key |-> EmptyStr, value |-> EmptyStr]

CodecIdle == [stage |-> "idle", key |-> EmptyStr, value |-> EmptyStr,
              line |-> EmptyStr, map |-> EmptyMap, got |-> EmptyStr]

MainInit ==
    /\ fs = [path \in Paths |-> NoFile]
    /\ pc = [p \in Procs |-> "idle"]
    /\ args = [p \in Procs |-> NoArgs]
    /\ db = [p \in Procs |-> NoDatabase]
    /\ content = [p \in Procs |-> EmptyStr]
    /\ result = [p \in Procs |-> NoResult]
    /\ snap = [p \in Procs |-> NoSnap]
    /\ hist = [d \in DbNames |-> << >>]
    /\ made = {}
    /\ runs = 0
    /\ envs = 0

Init == MainInit /\ codec = CodecIdle

\* What a step of a run leaves alone besides the variables it names
AuxUnchanged == UNCHANGED codec

----------------------------------------------------------------------------
(* main *)

\* enum Command: the subcommands clap accepts
Command == {"get", "set", "new"}

\* The command lines a caller may give.  "delete" is no subcommand of Command.
\* "compact" stands for a call of Database::compact_segments, which main never
\* makes: the model lets a caller make it on the database it opened.
Invocations ==
    {[cmd |-> "get", key |-> k, value |-> EmptyStr] : k \in Keys}
    \cup {[cmd |-> "set", key |-> k, value |-> v] : k \in Keys, v \in Values}
    \cup {[cmd |-> "delete", key |-> k, value |-> EmptyStr] : k \in Keys}
    \cup {[cmd |-> c, key |-> EmptyStr, value |-> EmptyStr] : c \in {"new", "compact"}}

\* A run takes the first slot that is free: the slots are only names.
Free(p) == pc[p] \in Terminal \cup {"idle"}
FirstFree(p) == Free(p) /\ (p = "p2" => ~Free("p1"))

Begin(p, d, inv) ==
    /\ FirstFree(p)
    /\ args' = [args EXCEPT ![p] = [db_name |-> d, cmd |-> inv.cmd,
                                    key |-> inv.key, value |-> inv.value]]
    /\ db' = [db EXCEPT ![p] = NoDatabase]
    /\ content' = [content EXCEPT ![p] = EmptyStr]
    /\ snap' = [snap EXCEPT ![p] = [hist |-> hist[d],
                                    segment |-> SegPath(d, 1) \in made]]
    /\ runs' = runs + 1
    /\ UNCHANGED <<fs, made, envs>>
    /\ AuxUnchanged

\* Args::parse() accepts the command line: main goes on to Database::new
Start(p, d, inv) ==
    /\ inv.cmd \in Command \cup {"compact"}
    /\ Begin(p, d, inv)
    /\ pc' = [pc EXCEPT ![p] = "create_segment"]
    /\ result' = [result EXCEPT ![p] = NoResult]
    /\ UNCHANGED hist

\* Args::parse() on a subcommand Command does not have: clap prints the usage
\* and exits before Database::new; nothing is read or written.
RejectedCommand(p, d, inv) ==
    /\ inv.cmd \notin Command \cup {"compact"}
    /\ Begin(p, d, inv)
    /\ pc' = [pc EXCEPT ![p] = "exited"]
    /\ result' = [result EXCEPT ![p] = Usage]
    /\ hist' = [hist EXCEPT ![d] = Append(@, DeleteOp(inv.key))]

\* Database::create_segement_file(db_name, 1): File::create_new(..).expect(..)
\* creates the file, and aborts when it is there already.
create_segement_file(p) ==
    LET file_path == SegPath(args[p].db_name, 1)
    IN  /\ pc[p] = "create_segment"
        /\ IF fs[file_path].exists
           THEN /\ pc' = [pc EXCEPT ![p] = "panicked"]
                /\ result' = [result EXCEPT ![p] = Panic("create_segement_file")]
                /\ UNCHANGED <<fs, made>>
           ELSE /\ pc' = [pc EXCEPT ![p] = "new_open"]
                /\ fs' = [fs EXCEPT ![file_path] = File(EmptyStr)]
                /\ made' = made \cup {file_path}
                /\ result' = result
        /\ UNCHANGED <<args, db, content, snap, hist, runs, envs>>
        /\ AuxUnchanged

\* Database::new from line 87 on: a file that is gone is created again and the
\* index is empty; a file that is there is read and replayed into the index.
Database_new(p) ==
    LET db_name == args[p].db_name
        file_path == SegPath(db_name, 1)
    IN  /\ pc[p] = "new_open"
        /\ IF ~fs[file_path].exists
           THEN /\ fs' = [fs EXCEPT ![file_path] = File(EmptyStr)]
                /\ made' = made \cup {file_path}
                /\ db' = [db EXCEPT ![p] = Database(db_name, EmptyIndex)]
           ELSE /\ UNCHANGED <<fs, made>>
                /\ db' = [db EXCEPT ![p] =
                            Database(db_name, build_index(fs[file_path].bytes))]
        /\ pc' = [pc EXCEPT ![p] = "dispatch"]
        /\ UNCHANGED <<args, content, result, snap, hist, runs, envs>>
        /\ AuxUnchanged

\* Command::New => todo!()
Command_New(p) ==
    /\ pc[p] = "dispatch"
    /\ args[p].cmd = "new"
    /\ pc' = [pc EXCEPT ![p] = "panicked"]
    /\ result' = [result EXCEPT ![p] = Panic("Command::New")]
    /\ UNCHANGED <<fs, args, db, content, snap, hist, made, runs, envs>>
    /\ AuxUnchanged

\* Database::compact_segments: todo!()
compact_segments(p) ==
    /\ pc[p] = "dispatch"
    /\ args[p].cmd = "compact"
    /\ pc' = [pc EXCEPT ![p] = "panicked"]
    /\ result' = [result EXCEPT ![p] = Panic("compact_segments")]
    /\ UNCHANGED <<fs, args, db, content, snap, hist, made, runs, envs>>
    /\ AuxUnchanged

\* self.idx.0.get(key) is Some
index_hit(idx, key) == key \in DOMAIN idx

\* A get_by_key that reports the absent key as an error
absent_result_as_error == Err("get_by_key: key not found")

\* Ok("".to_string()): what get_by_key returns for a key the index does not have
absent_result == Ok(EmptyStr)

\* get_by_key, the index lookup.  Without an entry it returns at once; with one
\* it goes on to open the file.  main prints the value.
get_by_key(p) ==
    /\ pc[p] = "dispatch"
    /\ args[p].cmd = "get"
    /\ IF index_hit(db[p].idx, args[p].key)
       THEN /\ pc' = [pc EXCEPT ![p] = "get_open"]
            /\ result' = result
       ELSE /\ pc' = [pc EXCEPT ![p] = IF absent_result.ret = "Ok" THEN "done" ELSE "panicked"]
            /\ result' = [result EXCEPT ![p] = absent_result]
    /\ UNCHANGED <<fs, args, db, content, snap, hist, made, runs, envs>>
    /\ AuxUnchanged

\* get_by_key on an index entry: File::open(&self.db_name)?, seek to the offset,
\* read_line, and the value after the first comma.  A file that cannot be
\* opened is returned as Err, on which main's unwrap aborts.
get_read(p) ==
    LET file == fs[db[p].db_name]
        offset == db[p].idx[args[p].key]
    IN  /\ pc[p] = "get_open"
        /\ IF ~file.exists
           THEN /\ pc' = [pc EXCEPT ![p] = "panicked"]
                /\ result' = [result EXCEPT ![p] = Err("main: query.unwrap")]
           ELSE /\ pc' = [pc EXCEPT ![p] = "done"]
                /\ result' = [result EXCEPT ![p] =
                                Ok(value_of_line(ReadLineAt(file.bytes, offset)))]
        /\ UNCHANGED <<fs, args, db, content, snap, hist, made, runs, envs>>
        /\ AuxUnchanged

\* set_by_key, line 182: fs::read_to_string(db_name).expect(..)
set_read(p) ==
    LET file == fs[args[p].db_name]
    IN  /\ pc[p] = "dispatch"
        /\ args[p].cmd = "set"
        /\ IF ~file.exists
           THEN /\ pc' = [pc EXCEPT ![p] = "panicked"]
                /\ result' = [result EXCEPT ![p] = Panic("set_by_key: read_to_string")]
                /\ content' = content
           ELSE /\ pc' = [pc EXCEPT ![p] = "set_create"]
                /\ content' = [content EXCEPT ![p] = file.bytes]
                /\ result' = result
        /\ UNCHANGED <<fs, args, db, snap, hist, made, runs, envs>>
        /\ AuxUnchanged

\* set_by_key, line 198: File::create(db_name) creates the file or truncates it
set_create(p) ==
    /\ pc[p] = "set_create"
    /\ fs' = [fs EXCEPT ![args[p].db_name] = File(EmptyStr)]
    /\ made' = IF fs[args[p].db_name].exists THEN made ELSE made \cup {args[p].db_name}
    /\ pc' = [pc EXCEPT ![p] = "set_write"]
    /\ UNCHANGED <<args, db, content, result, snap, hist, runs, envs>>
    /\ AuxUnchanged

\* set_by_key, lines 184-203: write_all(all_content) through the handle of
\* File::create, then Ok(()).  A handle whose file was removed meanwhile
\* ("set_write_unlinked") writes to no path.
set_write(p) ==
    LET db_name == args[p].db_name
        bytes == all_content(content[p], args[p].key, args[p].value)
    IN  /\ pc[p] \in {"set_write", "set_write_unlinked"}
        /\ IF pc[p] = "set_write"
           THEN /\ fs' = [fs EXCEPT ![db_name] = File(WriteAtStart(@.bytes, bytes))]
                /\ hist' = [hist EXCEPT ![db_name] =
                              Append(@, SetOp(args[p].key, args[p].value))]
           ELSE UNCHANGED <<fs, hist>>
        /\ pc' = [pc EXCEPT ![p] = "done"]
        /\ result' = [result EXCEPT ![p] = Ok(EmptyStr)]
        /\ UNCHANGED <<args, db, content, snap, made, runs, envs>>
        /\ AuxUnchanged

\* The process stops between two storage steps of set_by_key (power loss, kill)
Crash(p) ==
    /\ pc[p] \in {"set_create", "set_write", "set_write_unlinked"}
    /\ pc' = [pc EXCEPT ![p] = "crashed"]
    /\ UNCHANGED <<fs, args, db, content, result, snap, hist, made, runs, envs>>
    /\ AuxUnchanged

----------------------------------------------------------------------------
(* The environment: the user of the program, outside of it *)

\* The user creates the empty database file db_name (the program never does)
EnvTouch(d) ==
    /\ ~fs[d].exists
    /\ fs' = [fs EXCEPT ![d] = File(EmptyStr)]
    /\ envs' = envs + 1
    /\ UNCHANGED <<pc, args, db, content, result, snap, hist, made, runs>>
    /\ AuxUnchanged

\* The user removes the segment file of database d.  Where that path is the
\* file of a database, its history is gone and a handle open on it is unlinked.
EnvRemove(d) ==
    LET path == SegPath(d, 1)
    IN  /\ fs[path].exists
        /\ fs' = [fs EXCEPT ![path] = NoFile]
        /\ hist' = [x \in DbNames |-> IF x = path THEN << >> ELSE hist[x]]
        /\ made' = made \ {path}
        /\ pc' = [p \in Procs |->
                    IF pc[p] = "set_write" /\ args[p].db_name = path
                    THEN "set_write_unlinked" ELSE pc[p]]
        /\ envs' = envs + 1
        /\ UNCHANGED <<args, db, content, result, snap, runs>>
        /\ AuxUnchanged

----------------------------------------------------------------------------
(* Spec: runs of the program, interleaved, crashing, with the environment *)

Next ==
    \/ \E p \in Procs, d \in DbNames, inv \in Invocations :
          runs < MaxRuns /\ Start(p, d, inv)
    \/ \E p \in Procs, d \in DbNames, inv \in Invocations :
          runs < MaxRuns /\ RejectedCommand(p, d, inv)
    \/ \E p \in Procs : create_segement_file(p)
    \/ \E p \in Procs : Database_new(p)
    \/ \E p \in Procs : Command_New(p)
    \/ \E p \in Procs : compact_segments(p)
    \/ \E p \in Procs : get_by_key(p)
    \/ \E p \in Procs : get_read(p)
    \/ \E p \in Procs : set_read(p)
    \/ \E p \in Procs : set_create(p)
    \/ \E p \in Procs : set_write(p)
    \/ \E p \in Procs : Crash(p)
    \/ \E d \in DbNames : envs < MaxEnv /\ EnvTouch(d)
    \/ \E d \in DbNames : envs < MaxEnv /\ EnvRemove(d)

Spec == Init /\ [][Next]_vars

----------------------------------------------------------------------------
(* LongSpec: three runs of get and set, none of them stopping in a set *)

\* The command lines of get and set
GetSetInvocations == {inv \in Invocations : inv.cmd \in {"get", "set"}}

LongNext ==
    \/ \E p \in Procs, d \in DbNames, inv \in GetSetInvocations :
          runs < LongRuns /\ Start(p, d, inv)
    \/ \E p \in Procs : create_segement_file(p)
    \/ \E p \in Procs : Database_new(p)
    \/ \E p \in Procs : get_by_key(p)
    \/ \E p \in Procs : get_read(p)
    \/ \E p \in Procs : set_read(p)
    \/ \E p \in Procs : set_create(p)
    \/ \E p \in Procs : set_write(p)
    \/ \E d \in DbNames : envs < LongEnv /\ EnvTouch(d)
    \/ \E d \in DbNames : envs < LongEnv /\ EnvRemove(d)

LongSpec == Init /\ [][LongNext]_vars

----------------------------------------------------------------------------
(* FillSpec: one caller writes SEGMENT_SIZE + 1 distinct keys into database *)
(* "db", one run after the other; between the runs the user removes the    *)
(* segment file, without which no second run opens the database.           *)

FillDb == "db"

\* The i-th key written: "k", "kk", "kkk", ...
FillKey(i) == [j \in 1..i |-> "k"]

FillNext ==
    \/ \E v \in Values :
          /\ runs < SEGMENT_SIZE + 1
          /\ Start("p1", FillDb,
                   [cmd |-> "set", key |-> FillKey(Len(hist[FillDb]) + 1), value |-> v])
    \/ create_segement_file("p1")
    \/ Database_new("p1")
    \/ set_read("p1")
    \/ set_create("p1")
    \/ set_write("p1")
    \/ EnvTouch(FillDb)
    \/ Free("p1") /\ EnvRemove(FillDb)

FillSpec == Init /\ [][FillNext]_vars

----------------------------------------------------------------------------
(* CodecSpec: the record format, on every key and value up to MaxStrLen    *)
(* characters: the line set_by_key writes for (key, value) into an empty   *)
(* file, then what Map::read_database and get_by_key read back from it.    *)

CodecChars == {"a", "1", ",", " ", "\n"}

Strings(n) == UNION {[1..m -> CodecChars] : m \in 0..n}

CodecInit ==
    /\ MainInit
    /\ codec \in {[stage |-> "input", key |-> k, value |-> v, line |-> EmptyStr,
                   map |-> EmptyMap, got |-> EmptyStr] :
                  k \in Strings(MaxStrLen), v \in Strings(MaxStrLen)}

\* set_by_key on an empty file: the file holds all_content
CodecEncode ==
    /\ codec.stage = "input"
    /\ codec' = [codec EXCEPT !.stage = "encoded",
                              !.line = all_content(EmptyStr, codec.key, codec.value)]
    /\ UNCHANGED <<fs, pc, args, db, content, result, snap, hist, made, runs, envs>>

\* Map::read_database on the file, and get_by_key's read_line at offset 0
CodecDecode ==
    /\ codec.stage = "encoded"
    /\ codec' = [codec EXCEPT !.stage = "decoded",
                              !.map = read_database(codec.line),
                              !.got = value_of_line(ReadLineAt(codec.line, 0))]
    /\ UNCHANGED <<fs, pc, args, db, content, result, snap, hist, made, runs, envs>>

CodecNext == CodecEncode \/ CodecDecode

CodecSpec == CodecInit /\ [][CodecNext]_vars

----------------------------------------------------------------------------
(* AppendSpec: one set_by_key, alone, on a database that was just opened     *)
(* and whose file db_name holds any content of up to MaxStrLen characters.   *)

AppendDb == "db"

AppendInit ==
    /\ \E old \in Strings(MaxStrLen) :
          fs = [path \in Paths |->
                  IF path = AppendDb THEN File(old)
                  ELSE IF path = SegPath(AppendDb, 1) THEN File(EmptyStr)
                  ELSE NoFile]
    /\ pc = [p \in Procs |-> IF p = "p1" THEN "dispatch" ELSE "idle"]
    /\ \E k \in Keys, v \in Values :
          args = [p \in Procs |->
                    IF p = "p1"
                    THEN [db_name |-> AppendDb, cmd |-> "set", key |-> k, value |-> v]
                    ELSE NoArgs]
    /\ db = [p \in Procs |->
               IF p = "p1" THEN Database(AppendDb, EmptyIndex) ELSE NoDatabase]
    /\ content = [p \in Procs |-> EmptyStr]
    /\ result = [p \in Procs |-> NoResult]
    /\ snap = [p \in Procs |-> NoSnap]
    /\ hist = [d \in DbNames |-> << >>]
    /\ made = {SegPath(AppendDb, 1)}
    /\ runs = 1
    /\ envs = 0
    /\ codec = CodecIdle

AppendNext ==
    \/ set_read("p1")
    \/ set_create("p1")
    \/ set_write("p1")

AppendSpec == AppendInit /\ [][AppendNext]_vars

----------------------------------------------------------------------------
(* ReplaySpec: Database::new at its read of the segment file, which another  *)
(* process filled after create_segement_file made it, then the get of the    *)
(* run.  The segment file holds the records of up to MaxRecords sets, whole  *)
(* or with one more record cut short, or any content of up to MaxContentLen  *)
(* characters; the file db_name is absent or empty.                          *)

ReplayDb == "db"

AllSetOps == {SetOp(k, v) : k \in Keys, v \in Values}

Histories(n) == UNION {[1..m -> AllSetOps] : m \in 0..n}

\* The file after the sets of h, one after the other, on a file that holds old
RECURSIVE LogFrom(_, _)
LogFrom(old, h) ==
    IF h = << >> THEN old
    ELSE LogFrom(all_content(old, Head(h).key, Head(h).value), Tail(h))

LogOf(h) == LogFrom(EmptyStr, h)

\* The file after the sets of h and one more write_all that stopped inside
\* the record it was adding
CutLogs(h) ==
    UNION {{SubSeq(LogFrom(LogOf(h), <<t>>), 1, n) :
               n \in (Len(LogOf(h)) + 1)..(Len(LogFrom(LogOf(h), <<t>>)) - 1)} :
           t \in AllSetOps}

ReplayContents(h) ==
    {LogOf(h)} \cup CutLogs(h)
    \cup (IF h = << >> THEN Strings(MaxContentLen) ELSE {})

ReplayInit ==
    /\ \E h \in Histories(MaxRecords) :
          /\ hist = [d \in DbNames |-> IF d = SegPath(ReplayDb, 1) THEN h ELSE << >>]
          /\ \E c \in ReplayContents(h), f \in {NoFile, File(EmptyStr)} :
                fs = [path \in Paths |->
                        IF path = SegPath(ReplayDb, 1) THEN File(c)
                        ELSE IF path = ReplayDb THEN f
                        ELSE NoFile]
    /\ pc = [p \in Procs |-> IF p = "p1" THEN "new_open" ELSE "idle"]
    /\ \E k \in Keys :
          args = [p \in Procs |->
                    IF p = "p1"
                    THEN [db_name |-> ReplayDb, cmd |-> "get", key |-> k,
                          value |-> EmptyStr]
                    ELSE NoArgs]
    /\ db = [p \in Procs |-> NoDatabase]
    /\ content = [p \in Procs |-> EmptyStr]
    /\ result = [p \in Procs |-> NoResult]
    /\ snap = [p \in Procs |-> NoSnap]
    /\ made = {SegPath(ReplayDb, 1)}
    /\ runs = 1
    /\ envs = 0
    /\ codec = CodecIdle

ReplayNext ==
    \/ Database_new("p1")
    \/ get_by_key("p1")
    \/ get_read("p1")

ReplaySpec == ReplayInit /\ [][ReplayNext]_vars

----------------------------------------------------------------------------
(* Claims *)

\* get_by_key returned in run p (with a value or with an error)
GetReturned(p) == args[p].cmd = "get" /\ result[p].ret \in {"Ok", "Err"}

\* Nothing was asked of the database of run p since the run started
Undisturbed(p) == hist[args[p].db_name] = snap[p].hist

\* C1: a get of k that returns, in a run started after set(k, v) returned Ok
\* with no set or delete of k since, returns v.
C1_SetThenGet ==
    \A p \in Procs :
        (GetReturned(p) /\ Undisturbed(p) /\ LiveIn(snap[p].hist, args[p].key))
        => result[p] = Ok(LastOp(snap[p].hist, args[p].key).value)

\* C2: after set(k, v1) and then set(k, v2), both returned Ok and v1 # v2, a
\* get of k that returns, in a run started afterwards, returns v2.
C2_LastWriteWins ==
    \A p \in Procs :
        LET ops == OpsOn(snap[p].hist, args[p].key)
            n == Len(ops)
        IN  (/\ GetReturned(p)
             /\ Undisturbed(p)
             /\ n >= 2
             /\ ops[n].op = "set"
             /\ ops[n - 1].op = "set"
             /\ ops[n].value # ops[n - 1].value)
            => result[p] = Ok(ops[n].value)

\* C3: Database::new completes when the segment file of the database is there
\* from an earlier run as it does when there is none: a run that found the
\* file an earlier run made is not aborted inside Database::new.
C3_OpenCompletes ==
    \A p \in Procs :
        snap[p].segment => result[p].abort # "create_segement_file"

\* C4: a get_by_key of a key without an index entry returns Ok("") at once:
\* it passes through no file access and changes neither a file nor the index.
C4_AbsentKeyIsEmptyOk ==
    [][\A p \in Procs :
          (/\ pc[p] = "dispatch"
           /\ args[p].cmd = "get"
           /\ args[p].key \notin DOMAIN db[p].idx
           /\ pc'[p] # pc[p])
          => (/\ pc'[p] = "done"
              /\ result'[p] = [ret |-> "Ok", val |-> EmptyStr, abort |-> ""]
              /\ fs' = fs
              /\ db' = db)]_vars

\* C4 witness: a get of an absent key has returned Ok("") from an index that
\* holds another key.
C4_Witness ==
    \E p \in Procs :
        /\ pc[p] = "done"
        /\ args[p].cmd = "get"
        /\ DOMAIN db[p].idx # {}
        /\ args[p].key \notin DOMAIN db[p].idx
        /\ result[p].ret = "Ok"
        /\ result[p].val = EmptyStr

\* The segment files of database d, and the records a file holds
SegmentFiles(d) == {i \in 1..2 : fs[SegPath(d, i)].exists}
Records(path) == read_database(fs[path].bytes)

\* C5: once SEGMENT_SIZE + 1 distinct keys are written to a database, it has
\* exactly 2 segment files and the last key written is a record of the
\* second; and no file ever holds more than SEGMENT_SIZE records.
C5_RotatesAtCapacity ==
    /\ \A d \in DbNames :
          Cardinality(KeysSet(hist[d])) = SEGMENT_SIZE + 1
          => /\ Cardinality(SegmentFiles(d)) = 2
             /\ \E i \in 1..Len(Records(SegPath(d, 2))) :
                   Records(SegPath(d, 2))[i][1] = hist[d][Len(hist[d])].key
    /\ \A path \in Paths : Len(Records(path)) <= SEGMENT_SIZE

\* C6: the line written for (key, value) reads back as that key and that
\* value, through Map::read_database and through get_by_key.
C6_CodecRoundTrip ==
    codec.stage = "decoded"
    => /\ codec.map = <<(<<codec.key, codec.value>>)>>
       /\ codec.got = codec.value

\* C7: delete(k) is carried out, and afterwards, until a later set of k, the
\* log replays without k and a get of k returns the empty result.
C7_DeleteThenGet ==
    /\ \A p \in Procs :
          (args[p].cmd = "delete" /\ pc[p] \in Terminal) => result[p].ret = "Ok"
    /\ \A d \in DbNames, k \in Keys :
          (OpsOn(hist[d], k) # << >> /\ LastOp(hist[d], k).op = "delete" /\ fs[d].exists)
          => \A i \in 1..Len(Records(d)) : Records(d)[i][1] # k
    /\ \A p \in Procs :
          (/\ GetReturned(p)
           /\ Undisturbed(p)
           /\ OpsOn(snap[p].hist, args[p].key) # << >>
           /\ LastOp(snap[p].hist, args[p].key).op = "delete")
          => result[p] = Ok(EmptyStr)

\* C8: a compaction that was started and not killed terminates normally.
C8_CompactCompletes ==
    \A p \in Procs :
        (args[p].cmd = "compact" /\ pc[p] \in Terminal \ {"crashed"})
        => (pc[p] = "done" /\ result[p].ret = "Ok")

\* C9: a file that is missing makes open, get or set return an error to its
\* caller: no run is aborted where set_by_key reads the file.
C9_IoFailureIsReturned ==
    \A p \in Procs : result[p].abort # "set_by_key: read_to_string"

\* C10: when a run stops between two storage steps of set_by_key, the file
\* still begins with everything it held when that set read it.
C10_CrashKeepsEarlierRecords ==
    [][\A p \in Procs :
          (pc'[p] = "crashed" /\ pc[p] # "crashed" /\ fs'[args[p].db_name].exists)
          => IsPrefix(content[p], fs'[args[p].db_name].bytes)]_vars

\* The files other than that of path are left as they are by the step
OthersUnchanged(path) == \A x \in Paths \ {path} : fs'[x] = fs[x]

\* C11: a set that completes leaves the file as the content it found, then one
\* newline if that content is not empty and does not end in one, then the line
\* "key, value"; what it found is a prefix of what it leaves, what it
\* truncates is what it found, and no other file changes.
C11_AppendOnly ==
    [][\A p \in Procs :
          LET d == args[p].db_name
              old == content[p]
              sep == IF old # EmptyStr /\ old[Len(old)] # "\n" THEN <<"\n">> ELSE << >>
          IN  /\ (pc[p] = "set_create" /\ pc'[p] = "set_write")
                 => (fs[d].bytes = old /\ OthersUnchanged(d))
              /\ (pc[p] = "set_write" /\ pc'[p] = "done")
                 => /\ IsPrefix(old, fs'[d].bytes)
                    /\ fs'[d].bytes =
                          old \o sep \o args[p].key \o <<",", " ">> \o args[p].value
                    /\ OthersUnchanged(d)]_vars

\* C11 witness: a set has completed on a file that ended in a newline, and the
\* line follows that newline directly.
C11_Witness ==
    \E p \in Procs :
        /\ pc[p] = "done"
        /\ args[p].cmd = "set"
        /\ content[p] # EmptyStr
        /\ content[p][Len(content[p])] = "\n"
        /\ fs[args[p].db_name].bytes =
              content[p] \o args[p].key \o <<",", " ">> \o args[p].value

\* Run p has its Database: Database::new returned
Opened(p) == db[p] # NoDatabase

\* The byte offset of the start of record i of the log of h
OffsetOf(h, i) ==
    IF i = 1 THEN 0 ELSE Len(LogOf(SubSeq(h, 1, i - 1))) + 1

\* The place in h of the last set of key k
LastPlace(h, k) ==
    CHOOSE i \in 1..Len(h) : h[i].key = k /\ \A j \in (i + 1)..Len(h) : h[j].key # k

\* C12: when the segment file holds the records of the sets of a history, in
\* order, the index of a database opened on it has exactly the keys set, each
\* at the offset of the start of the last record of that key, and a get of
\* such a key returns the value of the last set of it.
C12_ReplayIsLastWrite ==
    \A p \in Procs :
        LET seg == SegPath(args[p].db_name, 1)
        IN  (Opened(p) /\ seg \in DbNames /\ fs[seg].bytes = LogOf(hist[seg]))
            => LET h == hist[seg]
               IN  /\ DOMAIN db[p].idx = KeysSet(h)
                   /\ \A k \in KeysSet(h) : db[p].idx[k] = OffsetOf(h, LastPlace(h, k))
                   /\ (pc[p] \in Terminal /\ args[p].key \in KeysSet(h))
                      => result[p] = Ok(LastOp(h, args[p].key).value)

\* offset is the start of a line of bytes that has a comma and whose text
\* before the comma, trimmed, is k
PointsAtRecord(bytes, offset, k) ==
    /\ offset < Len(bytes)
    /\ offset = 0 \/ bytes[offset] = "\n"
    /\ LET kv == SplitOnce(ReadLineAt(bytes, offset))
       IN  kv # << >> /\ Trim(kv[1]) = k

\* C13: every entry (k, offset) of the index of an opened database points at
\* the start of a record of the segment file whose key is k, whatever the
\* file holds, blank lines and lines without a comma included.
C13_IndexPointsAtRecords ==
    \A p \in Procs :
        Opened(p)
        => \A k \in DOMAIN db[p].idx :
              PointsAtRecord(fs[SegPath(args[p].db_name, 1)].bytes, db[p].idx[k], k)

\* C14: when the segment file holds the records of a history and then a part
\* of one more record, Database::new returns, every key of the history is in
\* the index at the offset of its last whole record, and a get of it returns
\* the value of that record.
C14_TruncatedTail ==
    \A p \in Procs :
        LET seg == SegPath(args[p].db_name, 1)
        IN  (/\ pc[p] \notin {"idle", "create_segment", "new_open"}
             /\ seg \in DbNames
             /\ hist[seg] # << >>
             /\ fs[seg].bytes \in CutLogs(hist[seg]))
            => LET h == hist[seg]
               IN  /\ Opened(p)
                   /\ \A k \in KeysSet(h) :
                         /\ k \in DOMAIN db[p].idx
                         /\ db[p].idx[k] = OffsetOf(h, LastPlace(h, k))
                   /\ (pc[p] \in Terminal /\ args[p].key \in KeysSet(h))
                      => result[p] = Ok(LastOp(h, args[p].key).value)

\* Run p is a set that returned Ok
SetReturned(p) == pc[p] = "done" /\ args[p].cmd = "set" /\ result[p].ret = "Ok"

\* The set that run p asks for
OpOf(p) == SetOp(args[p].key, args[p].value)

\* C15: the step that completes set(k, v) leaves in the index of the engine
\* an entry for k at the offset of the record it appended, and no step of a
\* set before that one changes the index.
C15_SetUpdatesIndex ==
    [][\A p \in Procs :
          LET d == args[p].db_name
          IN  /\ (pc[p] = "set_write" /\ pc'[p] = "done")
                 => /\ args[p].key \in DOMAIN db'[p].idx
                    /\ db'[p].idx[args[p].key] =
                          Len(fs'[d].bytes) - Len(new_line(args[p].key, args[p].value))
              /\ (pc[p] \in {"dispatch", "set_create"} /\ args[p].cmd = "set")
                 => db'[p].idx = db[p].idx]_vars

\* C16: when two sets on one database both return Ok and neither started
\* after the other returned, the file is what one of the two serial orders
\* leaves and holds the record of each.
C16_SetsSerialize ==
    \A p, q \in Procs :
        LET d == args[p].db_name
        IN  (/\ p # q
             /\ SetReturned(p) /\ SetReturned(q)
             /\ args[q].db_name = d
             /\ snap[p].hist = snap[q].hist
             /\ Len(hist[d]) = Len(snap[p].hist) + 2)
            => /\ fs[d].bytes \in {LogFrom(content[p], <<OpOf(p), OpOf(q)>>),
                                   LogFrom(content[q], <<OpOf(q), OpOf(p)>>)}
               /\ \A r \in {p, q} :
                     \E i \in 1..Len(Records(d)) :
                         Records(d)[i] = <<args[r].key, args[r].value>>

\* C17: a set on a database that the run opened afresh (no segment file from
\* an earlier run, no set before) returns Ok, and the record of a set that
\* returned Ok, with nothing asked of the database since, is a record of the
\* segment file that Database::new made, the file the next replay reads.
C17_OneStorageLocation ==
    \A p \in Procs :
        LET d == args[p].db_name
        IN  /\ (/\ args[p].cmd = "set" /\ Opened(p)
                /\ ~snap[p].segment /\ snap[p].hist = << >>
                /\ pc[p] \in {"done", "panicked"})
               => result[p].ret = "Ok"
            /\ (/\ SetReturned(p)
                /\ hist[d] = Append(snap[p].hist, OpOf(p))
                /\ SegPath(d, 1) \in made)
               => \E i \in 1..Len(Records(SegPath(d, 1))) :
                     Records(SegPath(d, 1))[i] = <<args[p].key, args[p].value>>

====
